---------------------------- MODULE Spec2Model ----------------------------
(***************************************************************************)
(* gqlalchemy/transformations.py: translation of a NetworkX graph into     *)
(* Cypher statements (nx_to_cypher) and the two-phase parallel load of     *)
(* those statements into Memgraph (nx_graph_to_memgraph_parallel).         *)
(*                                                                         *)
(* Python values are tagged tuples, <<"int", 3>>, <<"str", "Person">>,     *)
(* <<"list", <<"A", "B">>>>; a dict is the sequence of its items           *)
(* [k |-> key, v |-> value] in insertion order.  A statement is a record   *)
(* holding the fragments that the f-string of the source concatenates.    *)
(***************************************************************************)
EXTENDS Integers, Sequences, FiniteSets, TLC

\* ------------------------------------------------------------------ bounds
MaxNodes == 3
MaxEdges == 2
MaxCpu == 6
MaxFail == 1
MaxErr == 1

\* --------------------------------------------------------- python values
PyInt(i) == <<"int", i>>
PyStr(s) == <<"str", s>>
PyList(l) == <<"list", l>>

\* class NetworkXGraphConstants
LABELS == "labels"
TYPE == "type"
ID == "id"

\* ----------------------------------------------------------- python dict
\* key in d
DictHas(d, key) == \E j \in 1..Len(d) : d[j].k = key

\* d.get(key, default)
DictGet(d, key, default) ==
    IF DictHas(d, key)
    THEN d[CHOOSE j \in 1..Len(d) : d[j].k = key].v
    ELSE default

\* d[key] = value : an existing key keeps its place, a new one goes last
DictSet(d, key, value) ==
    IF DictHas(d, key)
    THEN [j \in 1..Len(d) |-> IF d[j].k = key THEN [k |-> key, v |-> value] ELSE d[j]]
    ELSE Append(d, [k |-> key, v |-> value])

\* d.pop(key, None) : the dict that is left
DictPop(d, key) == SelectSeq(d, LAMBDA item : item.k # key)

\* {k: v for k, v in d.items() if k != key}
DictWithout(d, key) == SelectSeq(d, LAMBDA item : item.k # key)

\* ------------------------------------------------------ gqlalchemy.utilities
\* to_cypher_labels: one label, or an ordered list of labels, to the labels
\* attached to the entity, in order; the empty string and the empty list
\* attach none.
to_cypher_labels(labels) ==
    IF labels[1] = "str"
    THEN (IF labels[2] = "" THEN <<>> ELSE <<labels[2]>>)
    ELSE labels[2]

\* to_cypher_properties: the property map literal, one "key: value" entry
\* per item, in the iteration order of the mapping.
to_cypher_properties(properties) ==
    [j \in 1..Len(properties) |-> <<properties[j].k, properties[j].v>>]

\* The value the literal `properties_str` carries for `key`.
LiteralGet(properties_str, key, default) ==
    IF \E j \in 1..Len(properties_str) : properties_str[j][1] = key
    THEN properties_str[CHOOSE j \in 1..Len(properties_str) : properties_str[j][1] = key][2]
    ELSE default

LiteralKeys(properties_str) == {properties_str[j][1] : j \in 1..Len(properties_str)}

\* -------------------------------------------------------- _create_node
\* The statement returned, and `properties` as the call leaves it: the dict
\* is the graph's own attribute dict of the node, and line 96 writes to it.
_create_node(nx_id, properties) ==
    LET props1 == IF ~DictHas(properties, ID)
                  THEN DictSet(properties, ID, PyInt(nx_id))
                  ELSE properties
        labels_str == to_cypher_labels(DictGet(props1, LABELS, PyStr("")))
        properties_without_labels == DictWithout(props1, LABELS)
        properties_str == to_cypher_properties(properties_without_labels)
    IN  [stmt |-> [kind |-> "CREATE",
                   labels_str |-> labels_str,
                   properties_str |-> properties_str],
         properties |-> props1]

\* -------------------------------------------------------- _create_edge
\* The statement returned, and `properties` as the call leaves it: the dict
\* is the graph's own attribute dict of the edge, and line 113 pops from it.
_create_edge(from_id, to_id, from_label, to_label, properties) ==
    LET edge_type == to_cypher_labels(DictGet(properties, TYPE, PyStr("TO")))
        props1 == DictPop(properties, TYPE)
        properties_str == to_cypher_properties(props1)
        from_label_str == to_cypher_labels(from_label)
        to_label_str == to_cypher_labels(to_label)
    IN  [stmt |-> [kind |-> "MATCH",
                   from_label_str |-> from_label_str,
                   from_id |-> PyInt(from_id),
                   to_label_str |-> to_label_str,
                   to_id |-> PyInt(to_id),
                   edge_type |-> edge_type,
                   properties_str |-> properties_str],
         properties |-> props1]


\* ---------------------------------------------------------------- state
VARIABLES
    mode,               \* "cypher": the caller iterates nx_to_cypher(graph), twice;
                        \* "parallel": the caller calls nx_graph_to_memgraph_parallel(graph)
    graph,              \* the caller's nx.Graph: [nodes, edges]; node i is nodes[i+1]
    graph0,             \* the graph as the caller passed it (history)
    gphase,             \* the generator that is iterated: "nodes", "edges", "idle"
    gi,                 \* how many items that generator has yielded
    stream,             \* the statements yielded so far
    run,                \* which invocation of nx_to_cypher is iterated (1 or 2)
    first,              \* the statements of the first invocation, once exhausted
    cpu_count,          \* mp.cpu_count()
    num_of_processes,
    opc,                \* position of nx_graph_to_memgraph_parallel
    phase,              \* 1: the node statements, 2: the edge statements
    pidx,               \* index of the `for p in processes` loop that runs
    queries,            \* queries[ph]: list(queries_gen) of phase ph
    procs,              \* procs[ph]: the mp.Process objects of phase ph
    bad,                \* statements <<ph, index>> the database rejects every time
    budget,             \* database errors the database may still raise on other statements
    errBudget,          \* other errors (connection, interface) that may still occur
    execLog,            \* statements <<ph, index>> handed to cursor.execute (history)
    commits             \* commits[<<ph, index>>]: conn.commit() after that statement (history)

genVars == <<graph, gphase, gi, stream>>
callerVars == <<run, first>>
orchVars == <<num_of_processes, opc, phase, pidx, queries>>
dbVars == <<budget, errBudget, execLog, commits>>
constVars == <<mode, graph0, cpu_count, bad>>
vars == <<mode, graph, graph0, gphase, gi, stream, run, first, cpu_count,
          num_of_processes, opc, phase, pidx, queries, procs, bad, budget,
          errBudget, execLog, commits>>

\* ------------------------------------------------------- the input graphs
NodeChoices == 1..3
EdgeChoices == 1..3

\* Attribute dicts a node i may carry.
NodeData(i, c) ==
    CASE c = 1 -> <<>>
      [] c = 2 -> <<[k |-> LABELS, v |-> PyStr("Person")],
                    [k |-> "name", v |-> PyStr("Alice")]>>
      [] c = 3 -> <<[k |-> ID, v |-> PyInt(i + 10)],
                    [k |-> LABELS, v |-> PyList(<<"A", "B">>)]>>

\* Attribute dicts an edge may carry.
EdgeData(c) ==
    CASE c = 1 -> <<>>
      [] c = 2 -> <<[k |-> TYPE, v |-> PyStr("LIVES_IN")]>>
      [] c = 3 -> <<[k |-> "since", v |-> PyInt(1)],
                    [k |-> TYPE, v |-> PyStr("KNOWS")]>>

\* A directed graph of n nodes 0..n-1 and e <= n edges, edge j from node
\* j mod n to node (j+1) mod n.
MakeGraph(n, nc, e, ec) ==
    [nodes |-> [i \in 1..n |-> NodeData(i - 1, nc[i])],
     edges |-> [j \in 1..e |-> [u |-> (j - 1) % n, v |-> j % n, data |-> EdgeData(ec[j])]]]

Min(a, b) == IF a < b THEN a ELSE b

\* ------------------------------------------------------------- generators
\* The graph's node and edge counts do not change while it is iterated.
NumNodes == Len(graph.nodes)
NumEdges == Len(graph.edges)

\* Someone is iterating a generator: the caller of nx_to_cypher, or list()
\* on line 44.
Iterating == mode = "cypher" \/ opc = "list"

\* A node generator that hands every identifier the dict of the first node.
_nx_nodes_to_cypher_first_data(g, i) == _create_node(i, g.nodes[1])

\* _nx_nodes_to_cypher: the iteration that handles node i of g.
_nx_nodes_to_cypher(g, i) == _create_node(i, g.nodes[i + 1])

\* An edge generator that reads both labels from the source node.
_nx_edges_to_cypher_source_labels(g, j) ==
    LET n1 == g.edges[j + 1].u
        n2 == g.edges[j + 1].v
        data == g.edges[j + 1].data
        from_label == DictGet(g.nodes[n1 + 1], LABELS, PyStr(""))
    IN  _create_edge(n1, n2, from_label, from_label, data)

\* _nx_edges_to_cypher: the iteration that handles the j-th edge of g.
_nx_edges_to_cypher(g, j) ==
    LET n1 == g.edges[j + 1].u
        n2 == g.edges[j + 1].v
        data == g.edges[j + 1].data
        from_label == DictGet(g.nodes[n1 + 1], LABELS, PyStr(""))
        to_label == DictGet(g.nodes[n2 + 1], LABELS, PyStr(""))
    IN  _create_edge(n1, n2, from_label, to_label, data)

\* One `yield _create_node(nx_id, data)`: data is the node's dict in the graph.
YieldNode ==
    /\ Iterating
    /\ gphase = "nodes"
    /\ gi < NumNodes
    /\ LET r == _nx_nodes_to_cypher(graph, gi)
       IN  /\ graph' = [graph EXCEPT !.nodes[gi + 1] = r.properties]
           /\ stream' = Append(stream, r.stmt)
    /\ gi' = gi + 1
    /\ UNCHANGED <<gphase, callerVars, orchVars, procs, dbVars, constVars>>

\* One `yield _create_edge(n1, n2, from_label, to_label, data)`: data is the
\* edge's dict in the graph.
YieldEdge ==
    /\ Iterating
    /\ gphase = "edges"
    /\ gi < NumEdges
    /\ LET r == _nx_edges_to_cypher(graph, gi)
       IN  /\ graph' = [graph EXCEPT !.edges[gi + 1].data = r.properties]
           /\ stream' = Append(stream, r.stmt)
    /\ gi' = gi + 1
    /\ UNCHANGED <<gphase, callerVars, orchVars, procs, dbVars, constVars>>

\* nx_to_cypher, line 36 to line 37: the node generator is exhausted and the
\* edge generator continues the same stream.
NextGenerator ==
    /\ mode = "cypher"
    /\ gphase = "nodes"
    /\ gi = NumNodes
    /\ gphase' = "edges"
    /\ gi' = 0
    /\ UNCHANGED <<graph, stream, callerVars, orchVars, procs, dbVars, constVars>>

\* nx_to_cypher is exhausted.
Exhausted == mode = "cypher" /\ gphase = "edges" /\ gi = NumEdges

\* The caller, having consumed the whole stream, invokes nx_to_cypher on the
\* same graph object a second time.
Reinvoke ==
    /\ Exhausted
    /\ run = 1
    /\ run' = 2
    /\ first' = stream
    /\ stream' = <<>>
    /\ gphase' = "nodes"
    /\ gi' = 0
    /\ UNCHANGED <<graph, orchVars, procs, dbVars, constVars>>

\* ------------------------------------------------------------------ Init
NoProcs == [ph \in 1..2 |-> <<>>]
NoQueries == [ph \in 1..2 |-> <<>>]
Statements == (1..2) \X (0..(MaxNodes - 1))

InitCommon(n, nc, e, ec) ==
    /\ graph = MakeGraph(n, nc, e, ec)
    /\ graph0 = graph
    /\ gi = 0
    /\ stream = <<>>
    /\ run = 1
    /\ first = <<>>
    /\ num_of_processes = 0
    /\ phase = 1
    /\ pidx = 0
    /\ queries = NoQueries
    /\ procs = NoProcs
    /\ execLog = {}
    /\ commits = [s \in Statements |-> 0]

InitCypher ==
    /\ mode = "cypher"
    /\ \E n \in 0..MaxNodes : \E e \in 0..Min(n, MaxEdges) :
         \E nc \in [1..n -> NodeChoices] : \E ec \in [1..e -> EdgeChoices] :
            InitCommon(n, nc, e, ec)
    /\ gphase = "nodes"
    /\ opc = "none"
    /\ cpu_count = 2
    /\ bad = {}
    /\ budget = 0
    /\ errBudget = 0

InitParallel ==
    /\ mode = "parallel"
    /\ \E n \in 0..MaxNodes : \E e \in 0..Min(n, MaxEdges) :
         /\ InitCommon(n, [i \in 1..n |-> ((i - 1) % 3) + 1], e, [j \in 1..e |-> (j % 3) + 1])
         /\ bad \in {{}} \cup {{<<1, x>>} : x \in 0..(n - 1)} \cup {{<<2, x>>} : x \in 0..(e - 1)}
    /\ gphase = "idle"
    /\ opc = "call"
    /\ cpu_count \in {c \in 1..MaxCpu : c = 1 \/ c % 2 = 0}
    /\ budget = MaxFail
    /\ errBudget = MaxErr

Init == InitCypher \/ InitParallel

\* ------------------------------------------- nx_graph_to_memgraph_parallel
\* How a process has ended: _insert_queries returned, or an exception that
\* it does not catch ended it (mgclient.connect raised, or cursor.execute
\* raised something other than DatabaseError).
Terminated == {"done", "failed_connect", "failed_exec"}

\* A worker count that is never below one.
NumOfProcessesAtLeastOne(cpus) == IF cpus \div 2 = 0 THEN 1 ELSE cpus \div 2

\* Line 42: mp.cpu_count() // 2.
NumOfProcesses(cpus) == cpus \div 2

\* Line 42.
Begin ==
    /\ opc = "call"
    /\ num_of_processes' = NumOfProcesses(cpu_count)
    /\ opc' = "list"
    /\ gphase' = "nodes"
    /\ gi' = 0
    /\ stream' = <<>>
    /\ UNCHANGED <<graph, callerVars, phase, pidx, queries, procs, dbVars, constVars>>

\* A chunk size rounded up instead of down.
ChunkSizeRoundedUp(len_queries, n) == (len_queries + n - 1) \div n

\* A chunk size that is never below one.
ChunkSizeAtLeastOne(len_queries, n) ==
    IF len_queries \div n = 0 THEN 1 ELSE len_queries \div n

\* Line 45, for a list of len_queries statements.
ChunkSize(len_queries, n) == len_queries \div n

\* queries[lo:hi] of Python, on a list held as a 1-based sequence.
Slice(list, lo, hi) == SubSeq(list, lo + 1, Min(hi, Len(list)))

\* A slice that reaches one statement into the next worker's slice.
ProcessQueriesOverlapping(len_queries, i, chunk_size) ==
    SubSeq([x \in 1..len_queries |-> x - 1], i * chunk_size + 1,
           IF chunk_size * (i + 1) + 1 < len_queries
           THEN chunk_size * (i + 1) + 1 ELSE len_queries)

\* Line 48: the slice of worker i, as the indices into `queries` it holds.
ProcessQueries(len_queries, i, chunk_size) ==
    Slice([x \in 1..len_queries |-> x - 1], i * chunk_size, chunk_size * (i + 1))

\* mp.Process(target=_insert_queries, args=(process_queries, host, port)):
\* `list` is the worker's own list, `query` its local variable, `chunk` the
\* list as it was assigned and `failed` the statement of its last execute if
\* that raised DatabaseError (both history).
NewProcess(process_queries) ==
    [pc |-> "new", list |-> process_queries, query |-> -1,
     chunk |-> process_queries, failed |-> -1]

\* Lines 44 to 54, once list(queries_gen) has drained the generator: the
\* division on line 45 raises ZeroDivisionError when num_of_processes is 0.
Partition ==
    /\ opc = "list"
    /\ \/ gphase = "nodes" /\ gi = NumNodes
       \/ gphase = "edges" /\ gi = NumEdges
    /\ queries' = [queries EXCEPT ![phase] = stream]
    /\ gphase' = "idle"
    /\ IF num_of_processes = 0
       THEN /\ opc' = "raised"
            /\ UNCHANGED procs
       ELSE /\ opc' = "start"
            /\ procs' = [procs EXCEPT ![phase] =
                   [w \in 1..num_of_processes |->
                       NewProcess(ProcessQueries(Len(stream), w - 1,
                                                 ChunkSize(Len(stream), num_of_processes)))]]
    /\ pidx' = 0
    /\ UNCHANGED <<graph, gi, stream, callerVars, num_of_processes, phase, dbVars, constVars>>

\* Lines 55-56: p.start() of the next process; after the last one the loop
\* of line 57 begins.
StartProcess ==
    /\ opc = "start"
    /\ procs' = [procs EXCEPT ![phase][pidx + 1].pc = "connect"]
    /\ IF pidx + 1 < num_of_processes
       THEN pidx' = pidx + 1 /\ opc' = opc
       ELSE pidx' = 0 /\ opc' = "join"
    /\ UNCHANGED <<genVars, callerVars, num_of_processes, phase, queries, dbVars, constVars>>

\* A join that returns while the process still runs.
JoinedWithoutWaiting(p) == TRUE

\* A join that returns only for a process that ended normally.
JoinedOnlyWhenDone(p) == p.pc = "done"

\* p.join() returns once process p has ended, however it ended.
Joined(p) == p.pc \in Terminated

\* Lines 57-58: p.join() of the next process; after the last one the loop of
\* line 43 goes to the edge statements, or the function returns None.
JoinProcess ==
    /\ opc = "join"
    /\ Joined(procs[phase][pidx + 1])
    /\ IF pidx + 1 < num_of_processes
       THEN /\ pidx' = pidx + 1
            /\ UNCHANGED <<opc, phase, gphase, gi, stream>>
       ELSE /\ pidx' = 0
            /\ IF phase = 1
               THEN /\ phase' = 2
                    /\ opc' = "list"
                    /\ gphase' = "edges"
                    /\ gi' = 0
                    /\ stream' = <<>>
               ELSE /\ opc' = "returned"
                    /\ UNCHANGED <<phase, gphase, gi, stream>>
    /\ UNCHANGED <<graph, callerVars, num_of_processes, queries, procs, dbVars, constVars>>

\* ------------------------------------------------------- _insert_queries
workerFrame == <<genVars, callerVars, orchVars, constVars>>

\* Line 63 returns a connection.
Connect(ph, w) ==
    /\ procs[ph][w].pc = "connect"
    /\ procs' = [procs EXCEPT ![ph][w].pc = "loop"]
    /\ UNCHANGED <<workerFrame, dbVars>>

\* Line 63 raises: nothing in the process catches it.
ConnectFails(ph, w) ==
    /\ procs[ph][w].pc = "connect"
    /\ errBudget > 0
    /\ errBudget' = errBudget - 1
    /\ procs' = [procs EXCEPT ![ph][w].pc = "failed_connect"]
    /\ UNCHANGED <<workerFrame, budget, execLog, commits>>

\* A pop that takes the first element.
PopIndexFirst(list) == 1

\* list.pop(): the last element, and the list without it.
PopIndex(list) == Len(list)
PopRest(list) == SubSeq(list, 1, Len(list) - 1)

\* Lines 64 and 66: the list is not empty, query = queries.pop().  The
\* list belongs to this process alone, so pop() never raises IndexError.
Pop(ph, w) ==
    LET p == procs[ph][w] IN
    /\ p.pc = "loop"
    /\ Len(p.list) > 0
    /\ procs' = [procs EXCEPT ![ph][w] =
                    [p EXCEPT !.pc = "exec",
                              !.query = p.list[PopIndex(p.list)],
                              !.list = PopRest(p.list)]]
    /\ UNCHANGED <<workerFrame, dbVars>>

\* Line 64: the list is empty, _insert_queries returns.
Finish(ph, w) ==
    /\ procs[ph][w].pc = "loop"
    /\ Len(procs[ph][w].list) = 0
    /\ procs' = [procs EXCEPT ![ph][w].pc = "done"]
    /\ UNCHANGED <<workerFrame, dbVars>>

\* Lines 67-69: cursor.execute(query) and cursor.fetchall() succeed.
Execute(ph, w) ==
    LET p == procs[ph][w] IN
    /\ p.pc = "exec"
    /\ <<ph, p.query>> \notin bad
    /\ procs' = [procs EXCEPT ![ph][w] = [p EXCEPT !.pc = "commit", !.failed = -1]]
    /\ execLog' = execLog \cup {<<ph, p.query>>}
    /\ UNCHANGED <<workerFrame, budget, errBudget, commits>>

\* A handler that gives the failed statement up.
RequeueDropped(list, query) == list

\* A handler that appends the failed statement twice.
RequeueTwice(list, query) == Append(Append(list, query), query)

\* queries.append(query)
Requeue(list, query) == Append(list, query)

\* A worker without the handler of line 72: the database error propagates
\* and ends the process.
ExecuteDatabaseErrorPropagates(ph, w) ==
    LET p == procs[ph][w] IN
    /\ p.pc = "exec"
    /\ <<ph, p.query>> \in bad \/ budget > 0
    /\ budget' = IF <<ph, p.query>> \in bad THEN budget ELSE budget - 1
    /\ procs' = [procs EXCEPT ![ph][w].pc = "failed_exec"]
    /\ execLog' = execLog \cup {<<ph, p.query>>}
    /\ UNCHANGED <<workerFrame, errBudget, commits>>

\* Lines 67-75: cursor.execute(query) raises mgclient.DatabaseError; the
\* handler appends the statement to the list and continues the loop.
ExecuteDatabaseError(ph, w) ==
    LET p == procs[ph][w] IN
    /\ p.pc = "exec"
    /\ <<ph, p.query>> \in bad \/ budget > 0
    /\ budget' = IF <<ph, p.query>> \in bad THEN budget ELSE budget - 1
    /\ procs' = [procs EXCEPT ![ph][w] =
                    [p EXCEPT !.pc = "loop",
                              !.list = Requeue(p.list, p.query),
                              !.failed = p.query]]
    /\ execLog' = execLog \cup {<<ph, p.query>>}
    /\ UNCHANGED <<workerFrame, errBudget, commits>>

\* Lines 67-69: cursor.execute(query) raises an error that is neither
\* IndexError nor DatabaseError; it propagates and ends the process.
ExecuteOtherError(ph, w) ==
    LET p == procs[ph][w] IN
    /\ p.pc = "exec"
    /\ errBudget > 0
    /\ errBudget' = errBudget - 1
    /\ procs' = [procs EXCEPT ![ph][w].pc = "failed_exec"]
    /\ execLog' = execLog \cup {<<ph, p.query>>}
    /\ UNCHANGED <<workerFrame, budget, commits>>

\* Line 76: conn.commit(), reached only when execute did not raise.
Commit(ph, w) ==
    LET p == procs[ph][w] IN
    /\ p.pc = "commit"
    /\ commits' = [commits EXCEPT ![<<ph, p.query>>] = @ + 1]
    /\ procs' = [procs EXCEPT ![ph][w].pc = "loop"]
    /\ UNCHANGED <<workerFrame, budget, errBudget, execLog>>

Workers == {pw \in (1..2) \X (1..(MaxCpu \div 2)) : pw[2] <= Len(procs[pw[1]])}

Next ==
    \/ YieldNode
    \/ YieldEdge
    \/ NextGenerator
    \/ Reinvoke
    \/ Begin
    \/ Partition
    \/ StartProcess
    \/ JoinProcess
    \/ \E pw \in Workers : Connect(pw[1], pw[2])
    \/ \E pw \in Workers : ConnectFails(pw[1], pw[2])
    \/ \E pw \in Workers : Pop(pw[1], pw[2])
    \/ \E pw \in Workers : Finish(pw[1], pw[2])
    \/ \E pw \in Workers : Execute(pw[1], pw[2])
    \/ \E pw \in Workers : ExecuteDatabaseError(pw[1], pw[2])
    \/ \E pw \in Workers : ExecuteOtherError(pw[1], pw[2])
    \/ \E pw \in Workers : Commit(pw[1], pw[2])

Spec == Init /\ [][Next]_vars

\* --------------------------------------------------------------- fairness
\* The steps of nx_graph_to_memgraph_parallel itself, list(queries_gen)
\* included.
OrchStep ==
    \/ Begin
    \/ YieldNode
    \/ YieldEdge
    \/ Partition
    \/ StartProcess
    \/ JoinProcess

\* The steps of the process w of phase ph.
WorkerStep(ph, w) ==
    /\ w <= Len(procs[ph])
    /\ \/ Connect(ph, w)
       \/ ConnectFails(ph, w)
       \/ Pop(ph, w)
       \/ Finish(ph, w)
       \/ Execute(ph, w)
       \/ ExecuteDatabaseError(ph, w)
       \/ ExecuteOtherError(ph, w)
       \/ Commit(ph, w)

NextParallel ==
    \/ YieldNode
    \/ YieldEdge
    \/ Begin
    \/ Partition
    \/ StartProcess
    \/ JoinProcess
    \/ \E pw \in Workers : Connect(pw[1], pw[2])
    \/ \E pw \in Workers : ConnectFails(pw[1], pw[2])
    \/ \E pw \in Workers : Pop(pw[1], pw[2])
    \/ \E pw \in Workers : Finish(pw[1], pw[2])
    \/ \E pw \in Workers : Execute(pw[1], pw[2])
    \/ \E pw \in Workers : ExecuteDatabaseError(pw[1], pw[2])
    \/ \E pw \in Workers : ExecuteOtherError(pw[1], pw[2])
    \/ \E pw \in Workers : Commit(pw[1], pw[2])

\* The calls of nx_graph_to_memgraph_parallel in which the database rejects
\* no statement for ever.
FairInit == InitParallel /\ bad = {}

\* A parallel load in which no statement is rejected for ever: each may
\* fail with a database error finitely often (`budget`).  The operating
\* system keeps scheduling the calling process and every started process
\* that can take a step.
FairSpec ==
    /\ FairInit
    /\ [][NextParallel]_vars
    /\ WF_vars(OrchStep)
    /\ \A pw \in (1..2) \X (1..(MaxCpu \div 2)) : WF_vars(WorkerStep(pw[1], pw[2]))

\* ---------------------------------------------------------------- claims
Procs(ph) == 1..Len(procs[ph])
ChunkSet(p) == {p.chunk[x] : x \in 1..Len(p.chunk)}
Executing(p) == p.pc \in {"exec", "commit"}

\* C1: in nx_graph_to_memgraph_parallel no edge statement is being executed,
\* or has been executed, while a worker of the node phase has not yet
\* terminated; node and edge executions never interleave.
C1_PhaseBarrier ==
    ((\E s \in execLog : s[1] = 2) \/ (\E w \in Procs(2) : procs[2][w].pc # "new"))
        => /\ Len(procs[1]) = num_of_processes
           /\ num_of_processes >= 1
           /\ \A w \in Procs(1) : procs[1][w].pc \in Terminated

\* An edge statement was executed by one of several workers, after a database
\* error was raised and a statement was retried.
C1_Witness ==
    /\ \E s \in execLog : s[1] = 2
    /\ num_of_processes >= 2
    /\ budget < MaxFail
    /\ \E s \in execLog : s[1] = 1

\* C2: whenever a worker executes an edge statement, the creation statements
\* of both endpoint nodes have been executed and committed, in executions
\* where no statement fails for ever and no worker is aborted.
C2_EndpointsCommitted ==
    \A w \in Procs(2) :
        LET p == procs[2][w] IN
        (p.pc = "exec" /\ bad = {} /\ errBudget = MaxErr)
            => /\ commits[<<1, graph.edges[p.query + 1].u>>] >= 1
               /\ commits[<<1, graph.edges[p.query + 1].v>>] >= 1

RECURSIVE SumChunks(_, _)
SumChunks(ps, w) == IF w = 0 THEN 0 ELSE Len(ps[w].chunk) + SumChunks(ps, w - 1)

\* C3: with L statements and W >= 1 workers, worker i is assigned exactly
\* the indices i*(L div W) .. (i+1)*(L div W) - 1, the chunk lengths sum to
\* (L div W)*W, and no statement of index >= (L div W)*W is assigned to, held
\* by or executed by any worker.
C3_Partitioning ==
    \A ph \in 1..2 :
        procs[ph] # <<>> =>
            LET L == Len(queries[ph])
                W == num_of_processes
                size == L \div W
            IN  /\ W >= 1
                /\ Len(procs[ph]) = W
                /\ \A w \in 1..W :
                      /\ procs[ph][w].chunk = [x \in 1..size |-> (w - 1) * size + x - 1]
                      /\ \A x \in 1..Len(procs[ph][w].list) :
                            procs[ph][w].list[x] \in ChunkSet(procs[ph][w])
                      /\ Executing(procs[ph][w]) => procs[ph][w].query \in ChunkSet(procs[ph][w])
                /\ SumChunks(procs[ph], W) = size * W
                /\ \A s \in execLog : s[1] = ph => s[2] < size * W
                /\ \A x \in 0..(MaxNodes - 1) : x >= size * W => commits[<<ph, x>>] = 0

\* A phase whose statements do not divide among its workers has ended: the
\* statements of the full chunks are committed and the last one is not.
C3_Witness ==
    \E ph \in 1..2 :
        /\ procs[ph] # <<>>
        /\ num_of_processes >= 2
        /\ Len(queries[ph]) > num_of_processes
        /\ Len(queries[ph]) % num_of_processes # 0
        /\ \A w \in Procs(ph) : procs[ph][w].pc = "done"
        /\ commits[<<ph, 0>>] = 1
        /\ commits[<<ph, Len(queries[ph]) - 1>>] = 0

\* C4: after a statement fails with a database error while other statements
\* remain in the worker's list, the next statement the worker attempts is
\* one of the others: the worker attempts the failed statement again only
\* when its list holds nothing else.
C4_RetryAfterOthers ==
    \A ph \in 1..2 : \A w \in Procs(ph) :
        LET p == procs[ph][w] IN
        (p.pc = "exec" /\ p.failed = p.query) => Len(p.list) = 0

\* C5: when one statement of a chunk fails on every attempt and all the
\* others succeed when attempted, the worker retries the failing statement
\* only after every other statement of the chunk is committed.
C5_NoStarvation ==
    \A ph \in 1..2 : \A w \in Procs(ph) :
        LET p == procs[ph][w] IN
        (/\ <<ph, p.query>> \in bad
         /\ budget = MaxFail
         /\ errBudget = MaxErr
         /\ p.pc = "exec"
         /\ p.failed = p.query)
            => \A x \in ChunkSet(p) \ {p.query} : commits[<<ph, x>>] = 1

\* C6: when a worker could not connect, the call does not return normally.
C6_ConnectFailureRaises ==
    opc = "returned" =>
        \A ph \in 1..2 : \A w \in Procs(ph) : procs[ph][w].pc # "failed_connect"

\* Every node and every edge statement of the call has been generated.
GeneratedAll == Exhausted \/ (mode = "parallel" /\ phase = 2 /\ opc \in {"start", "join", "returned"})

\* The node statements and the edge statements of the (last) invocation.
NodeStmts == IF mode = "cypher" THEN SubSeq(stream, 1, NumNodes) ELSE queries[1]
EdgeStmts == IF mode = "cypher" THEN SubSeq(stream, NumNodes + 1, Len(stream)) ELSE queries[2]

\* C7: for every edge (u, v) the id matched for the source is the id that
\* the creation statement of u carries, and the id matched for the target is
\* the id that the creation statement of v carries.
C7_EdgeMatchesNodeId ==
    GeneratedAll =>
        \A j \in 1..NumEdges :
            /\ EdgeStmts[j].from_id
                  = LiteralGet(NodeStmts[graph.edges[j].u + 1].properties_str, ID, PyStr("absent"))
            /\ EdgeStmts[j].to_id
                  = LiteralGet(NodeStmts[graph.edges[j].v + 1].properties_str, ID, PyStr("absent"))

\* C8: a second invocation of nx_to_cypher on the same graph object yields
\* the same sequence of statements as the first.
C8_Restartable == (Exhausted /\ run = 2) => stream = first

\* C9: after the node and edge statements are generated, every attribute
\* mapping of the caller's graph is what it was before the call.
C9_GraphReadOnly == GeneratedAll => graph = graph0

\* C10: each edge statement yielded carries the encoded `labels` of its two
\* endpoint nodes as the graph stores them when it is generated (none when
\* absent), its relationship type is the edge's `type` attribute at that
\* time, or TO when the edge has none, and its property map has no `type`.
C10_EdgeStatement ==
    [][(gphase = "edges" /\ gi' = gi + 1) =>
          LET e == graph.edges[gi + 1]
              s == stream'[Len(stream')]
          IN  /\ Len(stream') = Len(stream) + 1
              /\ s.from_label_str
                    = to_cypher_labels(DictGet(graph.nodes[e.u + 1], LABELS, PyStr("")))
              /\ s.to_label_str
                    = to_cypher_labels(DictGet(graph.nodes[e.v + 1], LABELS, PyStr("")))
              /\ s.edge_type = IF DictHas(e.data, TYPE)
                               THEN to_cypher_labels(DictGet(e.data, TYPE, PyStr("")))
                               ELSE <<"TO">>
              /\ TYPE \notin LiteralKeys(s.properties_str)
              /\ graph'.nodes[e.u + 1] = graph.nodes[e.u + 1]
              /\ graph'.nodes[e.v + 1] = graph.nodes[e.v + 1]]_vars

\* An edge with a `type` between two nodes of different labels was turned
\* into a statement after the node statements of the same graph.
C10_Witness ==
    /\ gphase = "edges"
    /\ gi > 0
    /\ Len(stream) >= gi
    /\ stream[Len(stream)].edge_type = <<"LIVES_IN">>
    /\ stream[Len(stream)].from_label_str = <<"Person">>
    /\ stream[Len(stream)].to_label_str = <<"A", "B">>
    /\ DictHas(graph.nodes[graph.edges[gi].u + 1], ID)

\* C11: the stream of nx_to_cypher holds node statements first and edge
\* statements after them at every moment, and once exhausted it holds
\* exactly one creation statement per node, carrying that node's `id` (its
\* identifier when it has none) and labels, followed by exactly one
\* statement per edge, matching that edge's endpoints.
C11_OnePerEntity ==
    mode = "cypher" =>
        /\ \A a \in 1..Len(stream) : \A b \in 1..Len(stream) :
              (a < b /\ stream[a].kind = "MATCH") => stream[b].kind = "MATCH"
        /\ Exhausted =>
              /\ Len(stream) = Len(graph0.nodes) + Len(graph0.edges)
              /\ \A i \in 1..Len(graph0.nodes) :
                    /\ stream[i].kind = "CREATE"
                    /\ LiteralGet(stream[i].properties_str, ID, PyStr("absent"))
                          = DictGet(graph0.nodes[i], ID, PyInt(i - 1))
                    /\ stream[i].labels_str
                          = to_cypher_labels(DictGet(graph0.nodes[i], LABELS, PyStr("")))
              /\ \A j \in 1..Len(graph0.edges) :
                    /\ stream[Len(graph0.nodes) + j].kind = "MATCH"
                    /\ stream[Len(graph0.nodes) + j].from_id = PyInt(graph0.edges[j].u)
                    /\ stream[Len(graph0.nodes) + j].to_id = PyInt(graph0.edges[j].v)

\* A stream over several nodes and edges is exhausted.
C11_Witness ==
    /\ Exhausted
    /\ NumNodes >= 2
    /\ NumEdges >= 2
    /\ Len(stream) = NumNodes + NumEdges
    /\ \E i \in 1..NumNodes : DictHas(graph0.nodes[i], ID)

NoErrorSoFar == bad = {} /\ budget = MaxFail /\ errBudget = MaxErr

\* C12: while no execution has failed, a worker executes the statements of
\* its list in ascending index, each committed before the next is executed:
\* when it executes a statement, those before it in the chunk are committed
\* and those after it are not.
C12_AscendingOrder ==
    \A ph \in 1..2 : \A w \in Procs(ph) :
        LET p == procs[ph][w] IN
        (p.pc = "exec" /\ NoErrorSoFar) =>
            \A x \in ChunkSet(p) :
                /\ x < p.query => commits[<<ph, x>>] = 1
                /\ x > p.query => commits[<<ph, x>>] = 0

Aborted == {"failed_connect", "failed_exec"}

\* C13: while a node-phase worker, not ended by another error, holds a
\* statement that the database rejects on every attempt, the worker has not
\* returned, the node phase is not over, no edge worker exists, no edge
\* statement was executed and the call has not returned.
C13_NoRetryBound ==
    \A w \in Procs(1) :
        LET p == procs[1][w] IN
        ((\E b \in bad : b[1] = 1 /\ b[2] \in ChunkSet(p)) /\ p.pc \notin Aborted) =>
            /\ p.pc # "done"
            /\ phase = 1
            /\ opc \in {"start", "join"}
            /\ procs[2] = <<>>
            /\ \A s \in execLog : s[1] = 1
            /\ \A b \in bad : commits[b] = 0

\* A worker attempts the rejected statement once more after every other
\* statement of its chunk is committed, while the call waits in join and the
\* other workers have returned.
C13_Witness ==
    /\ opc = "join"
    /\ phase = 1
    /\ num_of_processes >= 2
    /\ \E w \in Procs(1) :
          LET p == procs[1][w] IN
          /\ p.pc = "exec"
          /\ <<1, p.query>> \in bad
          /\ p.failed = p.query
          /\ \A v \in Procs(1) \ {w} : procs[1][v].pc = "done"

\* C12 as amended: while no execution has failed, a worker executes the
\* statements of its list from the last to the first (descending index),
\* each committed before the next is executed: when it executes or commits
\* a statement, those after it in the chunk are committed, those before it
\* are not and are still in its list, in their order.
C12_DescendingOrder ==
    \A ph \in 1..2 : \A w \in Procs(ph) :
        LET p == procs[ph][w] IN
        (Executing(p) /\ NoErrorSoFar) =>
            /\ \A x \in ChunkSet(p) :
                  /\ x > p.query => commits[<<ph, x>>] = 1
                  /\ x < p.query => commits[<<ph, x>>] = 0
            /\ commits[<<ph, p.query>>] = 0
            /\ p.list = SelectSeq(p.chunk, LAMBDA x : x < p.query)

\* A worker executes the first statement of a chunk of several, after the
\* later ones are committed.
C12_Witness ==
    \E ph \in 1..2 : \E w \in Procs(ph) :
        LET p == procs[ph][w] IN
        /\ p.pc = "exec"
        /\ NoErrorSoFar
        /\ Len(p.chunk) >= 2
        /\ p.query = p.chunk[1]
        /\ commits[<<ph, p.chunk[2]>>] = 1

AllReturned(ph) ==
    /\ Len(procs[ph]) = num_of_processes
    /\ \A w \in Procs(ph) : procs[ph][w].pc = "done" /\ procs[ph][w].list = <<>>

\* C14: when every statement fails with a database error only finitely
\* often, a call with at least one worker ends, under fair scheduling,
\* either with an error other than a database error having occurred, or
\* with every worker of both phases returned on an empty list and the call
\* returned normally.
C14_TransientErrorsSwallowed ==
    (opc = "call" /\ cpu_count >= 2)
        ~> (errBudget < MaxErr \/ (opc = "returned" /\ AllReturned(1) /\ AllReturned(2)))

\* The call returned after a statement was retried and another was dropped
\* by the partitioning, with no other error.
C14_Witness ==
    /\ opc = "returned"
    /\ errBudget = MaxErr
    /\ budget < MaxFail
    /\ Len(queries[1]) % num_of_processes # 0
    /\ AllReturned(1)
    /\ AllReturned(2)

Count(list, x) == Cardinality({j \in 1..Len(list) : list[j] = x})
InHand(p, x) == IF Executing(p) /\ p.query = x THEN 1 ELSE 0

RECURSIVE SumCommits(_, _, _)
SumCommits(ph, chunk, n) ==
    IF n = 0 THEN 0 ELSE commits[<<ph, chunk[n]>>] + SumCommits(ph, chunk, n - 1)

\* C15: in every state of a worker that no uncaught error has ended in the
\* middle of an execution, each statement of its chunk is exactly one of: in
\* its list once, being executed, committed once; a commit follows a
\* successful execution only; and when the worker has returned, its list is
\* empty and the commits of its chunk number the length of the chunk.
C15_NoLossNoDuplication ==
    \A ph \in 1..2 : \A w \in Procs(ph) :
        LET p == procs[ph][w] IN
        p.pc # "failed_exec" =>
            /\ \A x \in ChunkSet(p) :
                  /\ Count(p.list, x) + InHand(p, x) + commits[<<ph, x>>] = 1
                  /\ commits[<<ph, x>>] = 1 => <<ph, x>> \in execLog
            /\ p.pc = "commit" => (p.failed = -1 /\ <<ph, p.query>> \in execLog)
            /\ p.pc = "done" =>
                  /\ p.list = <<>>
                  /\ SumCommits(ph, p.chunk, Len(p.chunk)) = Len(p.chunk)

\* The single worker of a phase returned, having committed a chunk of
\* several statements, one of them after a retry.
C15_Witness ==
    \E ph \in 1..2 :
        /\ num_of_processes = 1
        /\ Len(procs[ph]) = 1
        /\ procs[ph][1].pc = "done"
        /\ Len(procs[ph][1].chunk) >= 2
        /\ budget < MaxFail
        /\ \A s \in execLog : s[1] = ph

\* A worker that an uncaught error ended holds statements that are not
\* committed.
AbortedKeepsRest ==
    \A ph \in 1..2 : \A w \in Procs(ph) :
        LET p == procs[ph][w] IN
        p.pc \in Aborted =>
            /\ \A x \in 1..Len(p.list) : commits[<<ph, p.list[x]>>] = 0
            /\ p.pc = "failed_exec" => commits[<<ph, p.query>>] = 0

\* An ended worker takes no further step, and the step that ends a worker
\* with an error changes nothing of the other workers nor of the caller.
AbortIsLocal ==
    \A ph \in 1..2 : \A w \in Procs(ph) :
        /\ procs[ph][w].pc \in Aborted => procs'[ph][w] = procs[ph][w]
        /\ (procs[ph][w].pc \notin Aborted /\ procs'[ph][w].pc \in Aborted) =>
              /\ \A qh \in 1..2 : \A v \in Procs(qh) :
                    <<qh, v>> # <<ph, w>> => procs'[qh][v] = procs[qh][v]
              /\ UNCHANGED <<orchVars, genVars, commits>>

\* C16: an error other than a database error ends only the worker in which
\* it occurs: that worker's remaining statements are never executed, the
\* step changes no other worker, the other workers of the phase run to
\* their end (returning on an empty list unless an error of their own ends
\* them), and the call then goes on to the next phase, or returns after the
\* edge phase.
C16_AbortIsLocal ==
    /\ []AbortedKeepsRest
    /\ [][AbortIsLocal]_vars
    /\ (\E w \in Procs(1) : procs[1][w].pc \in Aborted)
          ~> (/\ phase = 2
              /\ \A v \in Procs(1) :
                    \/ procs[1][v].pc \in Aborted
                    \/ procs[1][v].pc = "done" /\ procs[1][v].list = <<>>)
    /\ (\E w \in Procs(2) : procs[2][w].pc \in Aborted)
          ~> (/\ opc = "returned"
              /\ \A v \in Procs(2) :
                    \/ procs[2][v].pc \in Aborted
                    \/ procs[2][v].pc = "done" /\ procs[2][v].list = <<>>)

\* The edge phase runs although a worker of the node phase could not
\* connect and left its statements unexecuted, while another worker of the
\* node phase committed its own.
C16_Witness ==
    /\ phase = 2
    /\ \E w \in Procs(2) : procs[2][w].pc = "exec"
    /\ \E w \in Procs(1) : \E v \in Procs(1) :
          /\ procs[1][w].pc = "failed_connect"
          /\ Len(procs[1][w].list) >= 1
          /\ commits[<<1, procs[1][w].list[1]>>] = 0
          /\ procs[1][v].pc = "done"
          /\ Len(procs[1][v].chunk) >= 1

Held(p) == {p.list[x] : x \in 1..Len(p.list)} \cup (IF Executing(p) THEN {p.query} ELSE {})

\* The chunks of a phase are disjoint sets of indices of its statement list,
\* a worker holds (in its list or in execution) only statements of its own
\* chunk, and no statement is committed twice.
DisjointWork ==
    \A ph \in 1..2 :
        /\ \A w \in Procs(ph) :
              /\ ChunkSet(procs[ph][w]) \subseteq 0..(Len(queries[ph]) - 1)
              /\ Held(procs[ph][w]) \subseteq ChunkSet(procs[ph][w])
              /\ \A v \in Procs(ph) :
                    v # w => ChunkSet(procs[ph][w]) \cap ChunkSet(procs[ph][v]) = {}
        /\ \A x \in 0..(MaxNodes - 1) : commits[<<ph, x>>] <= 1

\* A step that changes the list of one worker changes the list of no other
\* worker and leaves the caller's lists as they are.
OwnListOnly ==
    \A ph \in 1..2 : \A w \in Procs(ph) :
        procs'[ph][w].list # procs[ph][w].list =>
            /\ \A qh \in 1..2 : \A v \in Procs(qh) :
                  <<qh, v>> # <<ph, w>> => procs'[qh][v] = procs[qh][v]
            /\ UNCHANGED <<queries, stream>>

\* C17: the workers of a phase share no work: their chunks are pairwise
\* disjoint index ranges, so no statement is executed or committed by two
\* workers, and the pops and re-queues of a worker change its own list only.
C17_NoSharedWork == []DisjointWork /\ [][OwnListOnly]_vars

\* Two workers of one phase execute statements at the same time, one of
\* them a statement it had appended back to its list.
C17_Witness ==
    \E ph \in 1..2 : \E w \in Procs(ph) : \E v \in Procs(ph) :
        /\ w # v
        /\ procs[ph][w].pc = "exec"
        /\ procs[ph][v].pc = "exec"
        /\ procs[ph][w].failed = procs[ph][w].query

\* Phase ph is partitioned and has fewer statements than workers.
FewerThanWorkers(ph) == procs[ph] # <<>> /\ Len(queries[ph]) < num_of_processes

\* In a phase with fewer statements than workers every worker has an empty
\* list and executes and commits nothing.
EmptyChunks ==
    \A ph \in 1..2 :
        FewerThanWorkers(ph) =>
            /\ \A w \in Procs(ph) :
                  /\ procs[ph][w].chunk = <<>>
                  /\ procs[ph][w].list = <<>>
                  /\ procs[ph][w].pc \in {"new", "connect", "loop", "done", "failed_connect"}
            /\ \A s \in execLog : s[1] # ph
            /\ \A x \in 0..(MaxNodes - 1) : commits[<<ph, x>>] = 0

\* C18: when a phase has fewer statements than workers, the chunk size is 0,
\* every worker gets an empty list and ends without executing or committing
\* anything, no statement of the phase reaches the store, and the call goes
\* on and returns normally.
C18_FewerStatementsThanWorkers ==
    /\ []EmptyChunks
    /\ \A ph \in 1..2 :
          FewerThanWorkers(ph) ~>
              (/\ opc = "returned"
               /\ \A w \in Procs(ph) : procs[ph][w].pc \in Terminated)

\* The call returned although the graph had a node and an edge, neither of
\* which was executed: there were more workers than statements.
C18_Witness ==
    /\ opc = "returned"
    /\ Len(queries[1]) >= 1
    /\ Len(queries[2]) >= 1
    /\ FewerThanWorkers(1)
    /\ FewerThanWorkers(2)
    /\ execLog = {}
    /\ \A w \in Procs(1) : procs[1][w].pc = "done"

\* C19: the worker count is the CPU count divided by 2; with one CPU it is 0
\* and the call fails with ZeroDivisionError at the chunk size of the node
\* phase, with no process created or started and no statement executed; with
\* two or more CPUs it does not fail that way.
C19_WorkerCount ==
    mode = "parallel" =>
        /\ opc # "call" => num_of_processes = cpu_count \div 2
        /\ cpu_count = 1 =>
              /\ opc \in {"call", "list", "raised"}
              /\ phase = 1
              /\ procs = NoProcs
              /\ execLog = {}
              /\ \A s \in Statements : commits[s] = 0
        /\ opc = "raised" => (cpu_count = 1 /\ num_of_processes = 0 /\ queries[2] = <<>>)
        /\ cpu_count >= 2 => opc # "raised"

\* The call failed with ZeroDivisionError after listing the node statements
\* of a graph with nodes and edges.
C19_Witness ==
    /\ opc = "raised"
    /\ cpu_count = 1
    /\ Len(queries[1]) >= 2
    /\ NumEdges >= 1
=============================================================================
